---- MODULE Spec2Model ----
(***************************************************************************)
(* One run of the Streamlit script app.py together with the pipeline of    *)
(* accent_detector.py.  A run reads the two widgets (uploaded_file,        *)
(* url_input), takes the upload branch, the URL branch or the prompt       *)
(* branch, and ends.  Library calls (requests, tempfile, moviepy,          *)
(* torchaudio, speechbrain, os.remove) succeed or raise as the             *)
(* environment decides; what the repository's code does on each outcome    *)
(* is translated from the source.                                          *)
(*                                                                         *)
(* A path is a sequence of one-character strings, so that the string       *)
(* operations of the code (suffix=, + ".wav", os.path.splitext, .lower())  *)
(* are computed and not assumed.                                           *)
(***************************************************************************)
EXTENDS Integers, Sequences, FiniteSets, TLC

VARIABLES
    pc,              \* position of the run in the script
    flow,            \* branch taken at app.py:64/95/107
    uploaded_file,   \* app.py:25  name of the uploaded file, or None
    url_input,       \* app.py:28  text of the URL field
    disk,            \* paths of the temporary files that exist
    wav,             \* what write_audiofile wrote: [path, fps, nchannels, complete]
    tmp_video_path,  \* accent_detector.py:146
    tmp_audio_path,  \* accent_detector.py:147
    tmp_file,        \* accent_detector.py:49/69  name of the open NamedTemporaryFile
    http_status,     \* status code of the response of requests.get, 0 before it
    written,         \* chunks of the body consumed by the loop at accent_detector.py:50
    retval,          \* value detect_accent_from_url is about to return
    tmp_path,        \* app.py:69
    file_ext,        \* app.py:71
    audio_path,      \* app.py:72
    result,          \* app.py:82/98
    exc,             \* exception in flight
    calls,           \* pipeline stages invoked so far: [fn, arg, status]
    messages,        \* what st.error / st.info / st.success / st.metric displayed
    suppressed,      \* number of OSErrors swallowed by cleanup_files
    escaped          \* exception that left the script, "none" if none did

vars == << pc, flow, uploaded_file, url_input, disk, wav, tmp_video_path,
           tmp_audio_path, tmp_file, http_status, written, retval, tmp_path,
           file_ext, audio_path, result, exc, calls, messages, suppressed,
           escaped >>

inputs == << uploaded_file, url_input >>
upVars == << tmp_path, file_ext, audio_path >>
urlVars == << tmp_video_path, tmp_audio_path, tmp_file, http_status, written, retval >>

(***************************************************************************)
(* Bounds of the model.                                                    *)
(***************************************************************************)
\* longest response body, in chunks of iter_content
MaxChunks == 2

(***************************************************************************)
(* Values.                                                                 *)
(***************************************************************************)
\* Python's None and an unassigned name, as values that are no path
None == << "<None>" >>
Unbound == << "<unbound>" >>

NoExc == [type |-> "none", arg |-> << >>]
Exc(t) == [type |-> t, arg |-> << >>]

NoWav == [path |-> None, fps |-> 0, nchannels |-> 0, complete |-> FALSE]

\* directory and prefix tempfile gives every name, then the random part
TempDir == << "/", "t", "m", "p", "/" >>
TempPrefix == << "t", "m", "p" >>
RandNames == { << "k", "3", "_" >>, << "x", "9", "q" >> }

SufMp4 == << ".", "m", "p", "4" >>
SufWav == << ".", "w", "a", "v" >>
SufMp3 == << ".", "m", "p", "3" >>
SufMkv == << ".", "m", "k", "v" >>
SufMov == << ".", "m", "o", "v" >>
SufM4a == << ".", "m", "4", "a" >>

\* app.py:26  the uploader accepts these six types only
UploadTypes == { SufMp4, SufMp3, SufWav, SufM4a, SufMov, SufMkv }
UploadNames == { << "a" >> \o s : s \in UploadTypes }

Urls == { "", "http://h/v" }

\* final status codes a server can answer a GET with
Statuses == { 200, 206, 300, 304, 404, 500 }

\* channels of the audio stream of a container: none, mono, stereo
AudioStreams == { 0, 1, 2 }

\* accent_detector.py:76 and app.py:41  fps=16000
SampleRate == 16000

(***************************************************************************)
(* String functions of the standard library.                               *)
(***************************************************************************)
UpperCase == << "A", "B", "C", "D", "E", "F", "G", "H", "I", "J", "K", "L", "M",
                "N", "O", "P", "Q", "R", "S", "T", "U", "V", "W", "X", "Y", "Z" >>
LowerCase == << "a", "b", "c", "d", "e", "f", "g", "h", "i", "j", "k", "l", "m",
                "n", "o", "p", "q", "r", "s", "t", "u", "v", "w", "x", "y", "z" >>

LowerChar(c) ==
    IF \E i \in 1..26 : UpperCase[i] = c
    THEN LowerCase[CHOOSE i \in 1..26 : UpperCase[i] = c]
    ELSE c

\* str.lower()
lower(s) == [i \in 1..Len(s) |-> LowerChar(s[i])]

LastIndex(s, c) ==
    IF \E i \in 1..Len(s) : s[i] = c
    THEN CHOOSE i \in 1..Len(s) : s[i] = c /\ \A j \in (i+1)..Len(s) : s[j] # c
    ELSE 0

\* os.path.splitext(p)[1]: from the last dot of the last component on, unless
\* that dot is among the leading dots of the component
splitext(p) ==
    LET sepIndex == LastIndex(p, "/")
        dotIndex == LastIndex(p, ".")
    IN  IF dotIndex > sepIndex /\ \E k \in (sepIndex+1)..(dotIndex-1) : p[k] # "."
        THEN SubSeq(p, dotIndex, Len(p))
        ELSE << >>

\* tempfile.NamedTemporaryFile(suffix=...).name for the random part r
TempName(r, suffix) == TempDir \o TempPrefix \o r \o suffix

\* Python truth value of a path argument of cleanup_files
Truthy(path) == path # None /\ path # << >>

(***************************************************************************)
(* Bookkeeping of calls and of the display.                                *)
(***************************************************************************)
Call(fn, arg) == [fn |-> fn, arg |-> arg, status |-> "running"]

\* the last call returned (st = "ok") or raised (st = "raised")
Finish(cs, st) == [cs EXCEPT ![Len(cs)].status = st]

Msg(fn, text, e) == [fn |-> fn, text |-> text, etype |-> e.type, arg |-> e.arg]

\* accent_detector.py:153-161
UrlInnerError(e) == << Msg("error", "Failed to process the video URL", e),
                       Msg("info", "Troubleshooting tips", NoExc) >>

\* app.py:84-86 and app.py:100-102
ShowResult == << Msg("success", "summary", NoExc),
                 Msg("metric", "Detected Accent", NoExc),
                 Msg("metric", "Confidence", NoExc) >>

\* app.py:108
Prompt == Msg("info", "Please upload a file or paste a video URL to analyze.", NoExc)

(***************************************************************************)
(* Initial state: the widgets hold what the user gave, nothing has run.    *)
(***************************************************************************)
Init ==
    /\ pc = "dispatch"
    /\ flow = "none"
    /\ uploaded_file \in {None} \cup UploadNames
    /\ url_input \in Urls
    /\ disk = {}
    /\ wav = NoWav
    /\ tmp_video_path = Unbound
    /\ tmp_audio_path = Unbound
    /\ tmp_file = None
    /\ http_status = 0
    /\ written = 0
    /\ retval = "unbound"
    /\ tmp_path = Unbound
    /\ file_ext = Unbound
    /\ audio_path = Unbound
    /\ result = "unbound"
    /\ exc = NoExc
    /\ calls = << >>
    /\ messages = << >>
    /\ suppressed = 0
    /\ escaped = "none"

(***************************************************************************)
(* app.py:64, 95, 107  the branch of the script.                           *)
(***************************************************************************)
\* variant: the URL field is tested before the uploader
Branch_urlFirst(uf, url) ==
    IF url # "" THEN "url"
    ELSE IF uf # None THEN "upload"
    ELSE "prompt"

Branch(uf, url) ==
    IF uf # None THEN "upload"
    ELSE IF url # "" THEN "url"
    ELSE "prompt"

Dispatch ==
    /\ pc = "dispatch"
    /\ flow' = Branch(uploaded_file, url_input)
    /\ pc' = CASE flow' = "upload" -> "up_save"
               [] flow' = "url" -> "url_call"
               [] OTHER -> "done"
    /\ messages' = IF flow' = "prompt" THEN Append(messages, Prompt) ELSE messages
    /\ UNCHANGED << inputs, upVars, urlVars, disk, wav, result, exc, calls,
                    suppressed, escaped >>

(***************************************************************************)
(* cleanup_files: every path that is truthy and exists is removed; an      *)
(* OSError of os.remove is swallowed.  fails is the set of paths whose     *)
(* removal the operating system refuses.                                   *)
(***************************************************************************)
Removed(paths, d, fails) ==
    { paths[i] : i \in { j \in DOMAIN paths :
                           Truthy(paths[j]) /\ paths[j] \in d /\ paths[j] \notin fails } }

Swallowed(paths, d, fails) ==
    Cardinality({ j \in DOMAIN paths :
                    Truthy(paths[j]) /\ paths[j] \in d /\ paths[j] \in fails })

\* accent_detector.py:121-133
cleanup_files(paths, d, fails) ==
    [disk |-> d \ Removed(paths, d, fails), swallowed |-> Swallowed(paths, d, fails)]

\* app.py:53-60
app_cleanup_files(paths, d, fails) ==
    [disk |-> d \ Removed(paths, d, fails), swallowed |-> Swallowed(paths, d, fails)]

(***************************************************************************)
(* The URL branch: app.py:95-105 calling detect_accent_from_url.           *)
(***************************************************************************)
\* app.py:98 and accent_detector.py:146-148
DetectEnter ==
    /\ pc = "url_call"
    /\ tmp_video_path' = None
    /\ tmp_audio_path' = None
    /\ pc' = "dl_get"
    /\ UNCHANGED << flow, inputs, upVars, tmp_file, http_status, written, retval,
                    disk, wav, result, exc, calls, messages, suppressed, escaped >>

\* the exception leaves the try body of detect_accent_from_url
RaiseInDetect(e, cs) ==
    /\ exc' = e
    /\ calls' = Finish(cs, "raised")
    /\ pc' = "det_except"

\* accent_detector.py:149, 47  download_video is called; requests.get answers or raises
DlGet ==
    /\ pc = "dl_get"
    /\ LET cs == Append(calls, Call("fetch", << >>)) IN
       \/ /\ RaiseInDetect(Exc("RequestException"), cs)
          /\ UNCHANGED http_status
       \/ /\ \E s \in Statuses : http_status' = s
          /\ calls' = cs
          /\ pc' = "dl_status"
          /\ UNCHANGED exc
    /\ UNCHANGED << flow, inputs, upVars, tmp_video_path, tmp_audio_path, tmp_file,
                    written, retval, disk, wav, result, messages, suppressed,
                    escaped >>

\* variant: only server errors raise
RaisesForStatus_serverOnly(s) == 500 <= s /\ s < 600

\* requests.Response.raise_for_status raises HTTPError for 4xx and 5xx, and for
\* no other status
RaisesForStatus(s) == 400 <= s /\ s < 600

\* accent_detector.py:48
DlStatus ==
    /\ pc = "dl_status"
    /\ IF RaisesForStatus(http_status)
       THEN RaiseInDetect(Exc("HTTPError"), calls)
       ELSE /\ pc' = "dl_open"
            /\ UNCHANGED << exc, calls >>
    /\ UNCHANGED << flow, inputs, upVars, urlVars, disk, wav, result, messages,
                    suppressed, escaped >>

\* accent_detector.py:49  the container is created under a name not in use
DlOpen ==
    /\ pc = "dl_open"
    /\ \/ /\ \E r \in RandNames :
                /\ TempName(r, SufMp4) \notin disk
                /\ tmp_file' = TempName(r, SufMp4)
          /\ disk' = disk \cup {tmp_file'}
          /\ pc' = "dl_write"
          /\ UNCHANGED << exc, calls >>
       \/ /\ RaiseInDetect(Exc("OSError"), calls)
          /\ UNCHANGED << tmp_file, disk >>
    /\ UNCHANGED << flow, inputs, upVars, tmp_video_path, tmp_audio_path,
                    http_status, written, retval, wav, result, messages,
                    suppressed, escaped >>

\* accent_detector.py:50-53  one round of the loop over the body, or its end
DlWrite ==
    /\ pc = "dl_write"
    /\ \/ \* a chunk arrives (and is written unless it is empty)
          /\ written < MaxChunks
          /\ written' = written + 1
          /\ UNCHANGED << pc, exc, calls, tmp_file, tmp_video_path >>
       \/ \* the connection breaks or the write fails: the with block closes the
          \* file, which stays on disk, and download_video raises
          /\ RaiseInDetect(Exc("RequestException"), calls)
          /\ tmp_file' = None
          /\ UNCHANGED << written, tmp_video_path >>
       \/ \* the body ends: return tmp_file.name, assigned at line 149
          /\ tmp_video_path' = tmp_file
          /\ tmp_file' = None
          /\ calls' = Finish(calls, "ok")
          /\ pc' = "ex_open"
          /\ UNCHANGED << written, exc >>
    /\ UNCHANGED << flow, inputs, upVars, tmp_audio_path, http_status, retval,
                    disk, wav, result, messages, suppressed, escaped >>

\* accent_detector.py:150, 69  extract_audio is called and creates the WAV file
ExOpen ==
    /\ pc = "ex_open"
    /\ LET cs == Append(calls, Call("extract", tmp_video_path)) IN
       \/ /\ \E r \in RandNames :
                /\ TempName(r, SufWav) \notin disk
                /\ tmp_file' = TempName(r, SufWav)
          /\ disk' = disk \cup {tmp_file'}
          /\ calls' = cs
          /\ pc' = "ex_write"
          /\ UNCHANGED exc
       \/ /\ RaiseInDetect(Exc("OSError"), cs)
          /\ UNCHANGED << tmp_file, disk >>
    /\ UNCHANGED << flow, inputs, upVars, tmp_video_path, tmp_audio_path,
                    http_status, written, retval, wav, result, messages,
                    suppressed, escaped >>

\* variant: a failure of the transcoding is swallowed and the path returned
ExWrite_swallow ==
    /\ pc = "ex_write"
    /\ \/ /\ tmp_audio_path' = tmp_file
          /\ calls' = Finish(calls, "raised")
          /\ pc' = "classify"
          /\ UNCHANGED << exc, wav >>
       \/ \E n \in AudioStreams \ {0} :
            /\ wav' = [path |-> tmp_file, fps |-> SampleRate, nchannels |-> n,
                       complete |-> TRUE]
            /\ tmp_audio_path' = tmp_file
            /\ calls' = Finish(calls, "ok")
            /\ pc' = "classify"
            /\ UNCHANGED exc
    /\ tmp_file' = None
    /\ UNCHANGED << flow, inputs, upVars, tmp_video_path, http_status, written,
                    retval, disk, result, messages, suppressed, escaped >>

\* accent_detector.py:70-78  the container is opened and its audio transcoded;
\* write_audiofile is told the rate, not the number of channels
ExWrite ==
    /\ pc = "ex_write"
    /\ \/ \* VideoFileClip cannot read the container
          /\ RaiseInDetect(Exc("OSError"), calls)
          /\ UNCHANGED << wav, tmp_audio_path >>
       \/ \* the container has no audio stream: video.audio is None
          /\ RaiseInDetect(Exc("AttributeError"), calls)
          /\ UNCHANGED << wav, tmp_audio_path >>
       \/ \* write_audiofile fails part way
          /\ \E n \in AudioStreams \ {0} :
                wav' = [path |-> tmp_file, fps |-> SampleRate, nchannels |-> n,
                        complete |-> FALSE]
          /\ RaiseInDetect(Exc("OSError"), calls)
          /\ UNCHANGED tmp_audio_path
       \/ \* write_audiofile completes: return audio_file.name, assigned at line 150
          \E n \in AudioStreams \ {0} :
            /\ wav' = [path |-> tmp_file, fps |-> SampleRate, nchannels |-> n,
                       complete |-> TRUE]
            /\ tmp_audio_path' = tmp_file
            /\ calls' = Finish(calls, "ok")
            /\ pc' = "classify"
            /\ UNCHANGED exc
    /\ tmp_file' = None
    /\ UNCHANGED << flow, inputs, upVars, tmp_video_path, http_status, written,
                    retval, disk, result, messages, suppressed, escaped >>

\* accent_detector.py:151, 98-118  classify_accent returns the dict or raises
Classify ==
    /\ pc = "classify"
    /\ LET cs == Append(calls, Call("classify", tmp_audio_path)) IN
       \/ /\ calls' = Finish(cs, "ok")
          /\ retval' = "dict"
          /\ pc' = "det_finally"
          /\ UNCHANGED exc
       \/ /\ RaiseInDetect(Exc("RuntimeError"), cs)
          /\ UNCHANGED retval
    /\ UNCHANGED << flow, inputs, upVars, tmp_video_path, tmp_audio_path, tmp_file,
                    http_status, written, disk, wav, result, messages, suppressed,
                    escaped >>

\* accent_detector.py:152-162
DetectExcept ==
    /\ pc = "det_except"
    /\ messages' = messages \o UrlInnerError(exc)
    /\ retval' = "None"
    /\ exc' = NoExc
    /\ pc' = "det_finally"
    /\ UNCHANGED << flow, inputs, upVars, tmp_video_path, tmp_audio_path, tmp_file,
                    http_status, written, disk, wav, result, calls, suppressed,
                    escaped >>

\* accent_detector.py:163-164, then the return to app.py:98
DetectFinally ==
    /\ pc = "det_finally"
    /\ \E fails \in SUBSET disk :
         LET c == cleanup_files(<< tmp_video_path, tmp_audio_path >>, disk, fails) IN
         /\ disk' = c.disk
         /\ suppressed' = suppressed + c.swallowed
    /\ result' = retval
    /\ pc' = "url_show"
    /\ UNCHANGED << flow, inputs, upVars, urlVars, wav, exc, calls, messages,
                    escaped >>

\* app.py:100-102  result["summary"] of None raises TypeError
UrlShow ==
    /\ pc = "url_show"
    /\ IF result = "None"
       THEN /\ exc' = Exc("TypeError")
            /\ pc' = "url_except"
            /\ UNCHANGED messages
       ELSE /\ messages' = messages \o ShowResult
            /\ pc' = "done"
            /\ UNCHANGED exc
    /\ UNCHANGED << flow, inputs, upVars, urlVars, disk, wav, result, calls,
                    suppressed, escaped >>

\* app.py:104-105
UrlExcept ==
    /\ pc = "url_except"
    /\ messages' = Append(messages, Msg("error", "Error while processing the URL", exc))
    /\ exc' = NoExc
    /\ pc' = "done"
    /\ UNCHANGED << flow, inputs, upVars, urlVars, disk, wav, result, calls,
                    suppressed, escaped >>

(***************************************************************************)
(* The upload branch: app.py:64-92.                                        *)
(***************************************************************************)
\* app.py:36, 45  the extensions process_audio_file knows
VideoExts == { SufMp4, SufMkv, SufMov, SufM4a }
AudioExts == { SufMp3, SufWav }

\* variant: whatever is not a video extension is taken for audio
FileKind_elseAudio(ext) ==
    IF ext \in VideoExts THEN "video" ELSE "audio"

\* app.py:36, 45, 49  the branch process_audio_file takes
FileKind(ext) ==
    IF ext \in VideoExts THEN "video"
    ELSE IF ext \in AudioExts THEN "audio"
    ELSE "unsupported"

Outcome(raised, ret, created, w, cs, ms) ==
    [raised |-> raised, ret |-> ret, created |-> created, wav |-> w,
     calls |-> cs, msgs |-> ms]

\* app.py:30-50  every way a call of process_audio_file can end: the exception
\* raised or the path returned, the files created, the stages called, the
\* messages displayed
process_audio_file(file_path, ext) ==
    LET wav_path == file_path \o SufWav
        extracting == << Msg("info", "Extracting audio from video", NoExc) >>
        started == << Call("extract", file_path) >>
        Written(n, done) == [path |-> wav_path, fps |-> SampleRate, nchannels |-> n,
                             complete |-> done]
    IN  CASE FileKind(ext) = "video" ->
               \* VideoFileClip cannot read the container
               { Outcome(Exc("OSError"), None, {}, NoWav,
                         Finish(started, "raised"), extracting) }
               \cup
               \* no audio stream: clip.audio is None
               { Outcome(Exc("AttributeError"), None, {}, NoWav,
                         Finish(started, "raised"), extracting) }
               \cup
               \* write_audiofile fails part way
               { Outcome(Exc("OSError"), None, {wav_path}, Written(n, FALSE),
                         Finish(started, "raised"), extracting)
                   : n \in AudioStreams \ {0} }
               \cup
               { Outcome(NoExc, wav_path, {wav_path}, Written(n, TRUE),
                         Finish(started, "ok"), extracting)
                   : n \in AudioStreams \ {0} }
          [] FileKind(ext) = "audio" ->
               { Outcome(NoExc, file_path, {}, NoWav, << >>,
                         << Msg("info", "Processing audio file", NoExc) >>) }
          [] OTHER ->
               { Outcome([type |-> "ValueError", arg |-> ext], None, {}, NoWav,
                         << >>, << >>) }

\* app.py:65-69  the upload is written to a temporary file made without a suffix
UploadSave ==
    /\ pc = "up_save"
    /\ \/ \* the temporary file cannot be created
          /\ exc' = Exc("OSError")
          /\ pc' = "up_except"
          /\ UNCHANGED << disk, tmp_path >>
       \/ \* the file is created, reading or writing the upload fails
          /\ \E r \in RandNames :
                /\ TempName(r, << >>) \notin disk
                /\ disk' = disk \cup {TempName(r, << >>)}
          /\ exc' = Exc("OSError")
          /\ pc' = "up_except"
          /\ UNCHANGED tmp_path
       \/ /\ \E r \in RandNames :
                /\ TempName(r, << >>) \notin disk
                /\ tmp_path' = TempName(r, << >>)
          /\ disk' = disk \cup {tmp_path'}
          /\ pc' = "up_process"
          /\ UNCHANGED exc
    /\ UNCHANGED << flow, inputs, urlVars, file_ext, audio_path, wav, result, calls,
                    messages, suppressed, escaped >>

\* app.py:75-77
Player == << Msg("audio", "player", NoExc) >>
Loaded == << Msg("write", "Sample Rate, Waveform shape", NoExc),
             Msg("subheader", "Accent Detection Result", NoExc) >>

\* app.py:71-86  the rest of the try body
UploadProcess ==
    /\ pc = "up_process"
    /\ file_ext' = lower(splitext(tmp_path))
    /\ \E o \in process_audio_file(tmp_path, file_ext') :
         /\ disk' = disk \cup o.created
         /\ wav' = IF o.wav = NoWav THEN wav ELSE o.wav
         /\ IF o.raised # NoExc
            THEN /\ exc' = o.raised
                 /\ calls' = calls \o o.calls
                 /\ messages' = messages \o o.msgs
                 /\ pc' = "up_except"
                 /\ UNCHANGED << audio_path, result >>
            ELSE /\ audio_path' = o.ret
                 /\ \/ \* torchaudio.load cannot read the file
                       /\ exc' = Exc("RuntimeError")
                       /\ calls' = calls \o o.calls
                       /\ messages' = messages \o o.msgs \o Player
                       /\ pc' = "up_except"
                       /\ UNCHANGED result
                    \/ \* classify_accent raises
                       /\ exc' = Exc("RuntimeError")
                       /\ calls' = calls \o o.calls
                                     \o Finish(<< Call("classify", o.ret) >>, "raised")
                       /\ messages' = messages \o o.msgs \o Player \o Loaded
                       /\ pc' = "up_except"
                       /\ UNCHANGED result
                    \/ /\ result' = "dict"
                       /\ calls' = calls \o o.calls
                                     \o Finish(<< Call("classify", o.ret) >>, "ok")
                       /\ messages' = messages \o o.msgs \o Player \o Loaded
                                        \o ShowResult
                       /\ pc' = "up_finally"
                       /\ UNCHANGED exc
    /\ UNCHANGED << flow, inputs, urlVars, tmp_path, suppressed, escaped >>

\* app.py:88-89
UploadExcept ==
    /\ pc = "up_except"
    /\ messages' = Append(messages, Msg("error", "Error while processing the file", exc))
    /\ exc' = NoExc
    /\ pc' = "up_finally"
    /\ UNCHANGED << flow, inputs, upVars, urlVars, disk, wav, result, calls,
                    suppressed, escaped >>

\* app.py:91-92  the arguments are evaluated first: a name never assigned raises
\* NameError before cleanup_files is entered, and nothing catches it
UploadFinally ==
    /\ pc = "up_finally"
    /\ IF tmp_path = Unbound \/ audio_path = Unbound
       THEN /\ escaped' = "NameError"
            /\ UNCHANGED << disk, suppressed >>
       ELSE /\ \E fails \in SUBSET disk :
                 LET c == app_cleanup_files(<< tmp_path, audio_path >>, disk, fails) IN
                 /\ disk' = c.disk
                 /\ suppressed' = suppressed + c.swallowed
            /\ UNCHANGED escaped
    /\ pc' = "done"
    /\ UNCHANGED << flow, inputs, upVars, urlVars, wav, result, exc, calls, messages >>

(***************************************************************************)
(* The run.                                                                *)
(***************************************************************************)
Next ==
    \/ Dispatch
    \/ DetectEnter
    \/ DlGet
    \/ DlStatus
    \/ DlOpen
    \/ DlWrite
    \/ ExOpen
    \/ ExWrite
    \/ Classify
    \/ DetectExcept
    \/ DetectFinally
    \/ UrlShow
    \/ UrlExcept
    \/ UploadSave
    \/ UploadProcess
    \/ UploadExcept
    \/ UploadFinally

Spec == Init /\ [][Next]_vars

(***************************************************************************)
(* What the properties below read off a state.                             *)
(***************************************************************************)
HasCall(fn) == \E i \in DOMAIN calls : calls[i].fn = fn

Shown(fn) == { i \in DOMAIN messages : messages[i].fn = fn }

\* detect_accent_from_url has returned to app.py
Returned == flow = "url" /\ pc \in { "url_show", "url_except", "done" }

HasFile == uploaded_file # None
HasUrl == url_input # ""

RecognizedExts == { SufMp4, SufMkv, SufMov, SufM4a, SufMp3, SufWav }

StageOrder == << "fetch", "extract", "classify" >>

(***************************************************************************)
(* C1: when detect_accent_from_url has returned, on whatever path, no      *)
(* temporary file it created (container or WAV) exists any more.           *)
(***************************************************************************)
C1_NoTempFileAfterDetect == Returned => disk = {}

(***************************************************************************)
(* C2: at the end of the upload flow every temporary file the flow created *)
(* (the saved container, the derived WAV) has been deleted, also when a    *)
(* step failed before the WAV path was assigned.                           *)
(***************************************************************************)
C2_UploadFlowDeletesTempFiles == (flow = "upload" /\ pc = "done") => disk = {}

(***************************************************************************)
(* C3: in both flows no exception leaves the flow, and a run that did not  *)
(* produce a result has displayed an error message.                        *)
(***************************************************************************)
C3_ErrorsCaughtAndDisplayed ==
    (flow \in { "upload", "url" } /\ pc = "done") =>
        /\ escaped = "none"
        /\ result # "dict" => Shown("error") # {}

(***************************************************************************)
(* C4: in the URL flow a failing stage is the last stage invoked, no stage *)
(* is invoked twice, and the request displays exactly one error message.   *)
(***************************************************************************)
C4_OneErrorPerFailedUrlRequest ==
    (flow = "url" /\ pc = "done" /\ \E i \in DOMAIN calls : calls[i].status = "raised") =>
        /\ \A i \in DOMAIN calls : calls[i].status = "raised" => i = Len(calls)
        /\ \A i, j \in DOMAIN calls : calls[i].fn = calls[j].fn => i = j
        /\ Cardinality(Shown("error")) = 1

(***************************************************************************)
(* C5 as claimed: with exactly one of the two inputs present that input is *)
(* processed; with both or neither present no stage runs, no file is made  *)
(* and only the prompt is displayed.                                       *)
(***************************************************************************)
C5_BothOrNeitherPrompts ==
    pc # "dispatch" =>
        /\ (HasFile /\ ~HasUrl) => flow = "upload"
        /\ (HasUrl /\ ~HasFile) => flow = "url"
        /\ (HasFile <=> HasUrl) =>
              /\ flow = "prompt"
              /\ calls = << >>
              /\ disk = {}
              /\ messages = << Prompt >>

(***************************************************************************)
(* C5 as amended: an uploaded file is processed whether or not a URL is    *)
(* given as well, and then the URL flow does not run; a non-empty URL is   *)
(* processed when no file is uploaded; with neither present no stage runs, *)
(* no file is made and only the prompt is displayed.                       *)
(***************************************************************************)
C5_UploadTakesPrecedence ==
    pc # "dispatch" =>
        /\ HasFile =>
              /\ flow = "upload"
              /\ tmp_video_path = Unbound
              /\ ~HasCall("fetch")
              /\ Prompt \notin { messages[i] : i \in DOMAIN messages }
        /\ (HasUrl /\ ~HasFile) =>
              /\ flow = "url"
              /\ tmp_path = Unbound
              /\ Prompt \notin { messages[i] : i \in DOMAIN messages }
        /\ (~HasFile /\ ~HasUrl) =>
              /\ flow = "prompt"
              /\ pc = "done"
              /\ calls = << >>
              /\ disk = {}
              /\ messages = << Prompt >>

\* a file and a URL were both given, and the run processed the file
C5_Witness ==
    /\ HasFile /\ HasUrl
    /\ pc = "done"
    /\ flow = "upload"
    /\ tmp_path # Unbound

(***************************************************************************)
(* C6: an upload whose name ends in .mp3 or .wav, once saved, is not       *)
(* extracted, and classify_accent is invoked on the saved container.       *)
(***************************************************************************)
C6_AudioUploadClassifiedDirectly ==
    (flow = "upload" /\ pc = "done" /\ tmp_path # Unbound
        /\ lower(splitext(uploaded_file)) \in AudioExts) =>
        /\ ~HasCall("extract")
        /\ \E i \in DOMAIN calls : calls[i].fn = "classify" /\ calls[i].arg = tmp_path

(***************************************************************************)
(* C7: an upload whose name ends in .mp4, .mkv, .mov or .m4a, once saved,  *)
(* is extracted to a WAV of 16000 Hz and one channel, and classify_accent  *)
(* is invoked on that WAV.                                                 *)
(***************************************************************************)
C7_VideoUploadExtractedTo16kMono ==
    (flow = "upload" /\ pc = "done" /\ tmp_path # Unbound
        /\ lower(splitext(uploaded_file)) \in VideoExts) =>
        /\ HasCall("extract")
        /\ wav.complete /\ wav.fps = SampleRate /\ wav.nchannels = 1
        /\ \E i \in DOMAIN calls : calls[i].fn = "classify" /\ calls[i].arg = wav.path

(***************************************************************************)
(* C8: when the extension the upload flow computes is outside the          *)
(* recognized set, the flow fails with the unsupported-format ValueError   *)
(* naming that extension, the error is displayed, and at no point of the   *)
(* run has extraction or classification been called.                       *)
(***************************************************************************)
C8_UnsupportedExtensionFailsBeforeAnyStage ==
    (flow = "upload" /\ file_ext # Unbound /\ file_ext \notin RecognizedExts) =>
        /\ ~HasCall("extract")
        /\ ~HasCall("classify")
        /\ wav = NoWav
        /\ result # "dict"
        /\ pc \in { "up_except", "up_finally", "done" }
        /\ pc = "up_except" => exc = [type |-> "ValueError", arg |-> file_ext]
        /\ pc # "up_except" =>
              \E i \in Shown("error") :
                  messages[i].etype = "ValueError" /\ messages[i].arg = file_ext

\* the flow saved the upload, computed an unrecognized extension and ended
C8_Witness ==
    /\ flow = "upload"
    /\ pc = "done"
    /\ file_ext # Unbound
    /\ file_ext \notin RecognizedExts
    /\ \E i \in Shown("error") : messages[i].etype = "ValueError"

\* what C9 promises of a response with status s
DownloadFailedWithoutWav ==
    /\ calls[1].status = "raised"
    /\ ~HasCall("extract")
    /\ wav = NoWav
    /\ \A p \in disk : splitext(p) # SufWav
    /\ Returned =>
          /\ result = "None"
          /\ \E i \in Shown("error") : messages[i].etype = "HTTPError"

C10_StagesInOrder ==
    flow = "url" =>
        /\ Len(calls) <= Len(StageOrder)
        /\ \A i \in DOMAIN calls : calls[i].fn = StageOrder[i]
        /\ \A i \in DOMAIN calls : i > 1 => calls[i-1].status = "ok"

\* fetch succeeded, extract failed, the call ended without classifying
C10_Witness ==
    /\ Returned
    /\ pc = "done"
    /\ Len(calls) = 2
    /\ calls[1].status = "ok"
    /\ calls[2].status = "raised"

====
